---- MODULE Spec2Model ----
(***************************************************************************)
(* Model of the page-access layer of mint (package diskview): the Pager    *)
(* (backing file, cached file info, mmap of page-sized regions), the LRU   *)
(* Cache (lookup map plus a sentinel-bounded doubly linked list of nodes)  *)
(* and the DiskViewer facade (Read, Create, Close).                        *)
(*                                                                         *)
(* Goroutines calling the DiskViewer are the threads of the model.  A step *)
(* of a thread is one critical section of the Cache mutex or one access of *)
(* the Pager; the Pager that diskview.go compiles against takes no lock,   *)
(* so every one of its accesses is a step of its own.  A read of the       *)
(* unsynchronized Pager.info sees the value written last.                  *)
(***************************************************************************)
EXTENDS Integers, Sequences, FiniteSets, TLC

(* ------------------------------ bounds -------------------------------- *)
\* A run of one goroutine is explored further than a run of two.
\* Largest number of pages the file is grown to.
MaxPages == 3
ConcPages == 2
\* Number of regions Pager.GetPage maps over a run; over the run of the
\* scenario, whose four Reads all miss.
MaxRegions == 3
ConcRegions == 2
ScenarioRegions == 4
\* Largest configured Config.MaxCapacity.
MaxCap == 2
ConcCap == 1
\* Largest page id callers read.
MaxId == 2
ConcId == 1
\* Number of system calls (munmap, mmap, pwrite, fstat, close) that fail over
\* a run.
MaxFaults == 1
ConcFaults == 1

(* ----------------------------- constants ------------------------------ *)
\* Pager.pageSize (os.Getpagesize()), scaled down to two bytes so that a
\* short write of one byte exists.
PageSize == 2
\* The capacity NewCache substitutes for a MaxCapacity of 0.
DefaultCapacity == 10
\* A Config.MaxCapacity below 0.
NegativeCapacity == -1

AllThreads == {1, 2}
PageIds == 0 .. MaxId
RegionIds == 1 .. ScenarioRegions
\* nil mmap.MMap
NoRegion == 0
\* id of a node that carries no page
NoId == -1

\* CacheNode pointers: nil, the two sentinels, the real nodes.
Nil == 0
HeadNode == 1
TailNode == 2
NodePtrs == 1 .. (MaxId + 3)
\* &CacheNode{}
ZeroNode == [id |-> NoId, data |-> NoRegion, next |-> Nil, prev |-> Nil]

\* The bound of a run: seq with one goroutine, conc with more.
Bound(ts, seq, conc) == IF Cardinality(ts) = 1 THEN seq ELSE conc

VARIABLES
    threads,    \* the goroutines that call the DiskViewer
    capacity,   \* Cache.config.MaxCapacity
    fileSize,   \* length of the backing file in bytes
    info,       \* Pager.info.Size(): the size seen by the last Stat
    fileOpen,   \* Pager.file is open
    regions,    \* every mmap region: its page and whether it is mapped
    nodes,      \* the CacheNode heap
    lookup,     \* Cache.lookup: page id -> node pointer
    head,       \* Cache.head
    tail,       \* Cache.tail
    phase,      \* "open", "closing" (Close running), "closed" (Close returned)
    pc,         \* where each goroutine stands
    id,         \* Read's argument / Create's local id
    offset,     \* Create's local offset
    remaining,  \* Create's local remaining
    data,       \* Read's local data (the region GetPage or Get returned)
    res,        \* what the last call of each goroutine returned
    nCreated,   \* number of Create calls that returned an id
    faults,     \* number of system calls that have failed
    recency,    \* the cached ids by last access, most recent first
    evicted,    \* the id the step just taken evicted (NoId: it evicted none)
    call,       \* per goroutine, of its Create call: the file size and
                \* PageCount() when it began, the byte offsets it has written
                \* and the number of its writes that wrote a byte or
                \* failed, and whether the writes without a byte since then
                \* are odd in number (kept in the runs of one goroutine)
    script      \* the calls the caller still makes, in order (AnyCalls: the
                \* caller makes any call at any time)

vars == <<threads, capacity, fileSize, info, fileOpen, regions, nodes, lookup,
          head, tail, phase, pc, id, offset, remaining, data, res, nCreated,
          faults, recency, evicted, call, script>>

pagerVars == <<fileSize, info, fileOpen>>
cacheVars == <<nodes, lookup, head, tail, recency>>
createLocals == <<offset, remaining, call>>

NoResult == [op |-> "none", err |-> FALSE, val |-> NoId]
\* No Create call is running.
NoCall == [size0 |-> 0, pages0 |-> 0, wrote |-> {}, writes |-> 0, zeros |-> 0]

\* call after goroutine t's Create call has come to c.
Record(t, c) == IF Cardinality(threads) = 1 THEN [call EXCEPT ![t] = c] ELSE call

\* A caller that is free to make any call.
AnyCalls == <<[op |-> "any", id |-> NoId]>>
\* The calls Read(i) and Create().
ReadCall(i) == [op |-> "Read", id |-> i]
CreateCall == [op |-> "Create", id |-> NoId]
\* The caller may make call c next.
CanCall(c) == script = AnyCalls \/ (script # <<>> /\ Head(script) = c)
\* The calls left once the next one is made.
Called == IF script = AnyCalls THEN script ELSE Tail(script)

(* ------------------------------- Pager -------------------------------- *)
\* Pager.PageCount over the cached file info.
PageCount(size) == size \div PageSize

\* os.File.WriteAt of n zero bytes at off: the byte offsets it writes.
Written(off, n) == off .. (off + n - 1)

\* os.File.WriteAt of n zero bytes at off: the file grows to cover them.
WriteAt(size, off, n) == IF n > 0 /\ off + n > size THEN off + n ELSE size

\* The region GetPage maps next.
FreshRegion == CHOOSE r \in RegionIds :
                  /\ regions[r].st = "none"
                  /\ \A q \in RegionIds : regions[q].st = "none" => r <= q

\* mmap.MMap.Unmap on region r; ok is munmap's outcome.  A failed munmap
\* leaves the mapping in place; an unmap of a region that is no longer
\* mapped is a second unmap of the same address range.
Unmap(rs, r, ok) ==
    IF r = NoRegion THEN rs
    ELSE IF rs[r].st = "mapped"
         THEN (IF ok THEN [rs EXCEPT ![r].st = "unmapped"] ELSE rs)
         ELSE [rs EXCEPT ![r].st = "double"]

(* ------------------------------- Cache -------------------------------- *)
\* insertAtFront that links the node in before tail.
insertAtBack(ns, node) ==
    LET n1 == [ns EXCEPT ![node].prev = ns[tail].prev]
        n2 == [n1 EXCEPT ![node].next = tail]
        n3 == [n2 EXCEPT ![n2[tail].prev].next = node]
    IN  [n3 EXCEPT ![tail].prev = node]

\* insertAtFront
insertAtFront(ns, node) ==
    LET n1 == [ns EXCEPT ![node].next = ns[head].next]
        n2 == [n1 EXCEPT ![node].prev = head]
        n3 == [n2 EXCEPT ![n2[head].next].prev = node]
    IN  [n3 EXCEPT ![head].next = node]

\* removeFromBack that takes the node at the front.
backNodeAtFront(ns) == ns[head].next

\* removeFromBack: the node it returns.
backNode(ns) == ns[tail].prev

\* removeFromBack: the list after the removal.
removeFromBack(ns) ==
    LET last == backNode(ns)
        n1 == [ns EXCEPT ![ns[last].prev].next = tail]
        n2 == [n1 EXCEPT ![tail].prev = n1[last].prev]
    IN  [n2 EXCEPT ![last].prev = Nil, ![last].next = Nil]

\* moveToFront that unlinks the node and does not insert it again.
moveToFrontUnlinks(ns, node) ==
    IF node = ns[head].next THEN ns
    ELSE LET n1 == [ns EXCEPT ![ns[node].prev].next = ns[node].next]
         IN  [n1 EXCEPT ![n1[node].next].prev = n1[node].prev]

\* moveToFront that leaves the node where it is.
moveToFrontKeepsPlace(ns, node) == ns

\* moveToFront
moveToFront(ns, node) ==
    IF node = ns[head].next THEN ns
    ELSE LET n1 == [ns EXCEPT ![ns[node].prev].next = ns[node].next]
             n2 == [n1 EXCEPT ![n1[node].next].prev = n1[node].prev]
         IN  insertAtFront(n2, node)

\* The eviction guard with > for >=.
AtCapacityOffByOne(n, cap) == n > cap

\* Cache.Set: the eviction guard.
AtCapacity(n, cap) == n >= cap

\* &CacheNode{...}: a node no pointer of the cache reaches.
NewNode(lk) == CHOOSE p \in NodePtrs :
                  /\ p \notin {HeadNode, TailNode}
                  /\ \A i \in DOMAIN lk : lk[i] # p
                  /\ \A q \in NodePtrs :
                        (q \notin {HeadNode, TailNode} /\ \A i \in DOMAIN lk : lk[i] # q)
                            => p <= q

\* delete(l.lookup, k) that deletes nothing.
MapDeleteKeeps(lk, k) == lk

\* delete(l.lookup, k)
MapDelete(lk, k) == [i \in DOMAIN lk \ {k} |-> lk[i]]
\* l.lookup[k] = v
MapPut(lk, k, v) == [i \in DOMAIN lk \cup {k} |-> IF i = k THEN v ELSE lk[i]]

\* The recency order after an access of page i.
Touch(seq, i) == <<i>> \o SelectSeq(seq, LAMBDA x : x # i)
Without(seq, i) == SelectSeq(seq, LAMBDA x : x # i)

\* The ids on the list from head.next to the node before tail.
RECURSIVE ListFrom(_, _, _)
ListFrom(ns, p, fuel) ==
    IF p = Nil \/ p = tail \/ fuel = 0 THEN <<>>
    ELSE <<ns[p].id>> \o ListFrom(ns, ns[p].next, fuel - 1)
ListIds == IF head = Nil THEN <<>>
           ELSE ListFrom(nodes, nodes[head].next, MaxId + 4)

\* The node pointers on the list from head.next to the node before tail.
RECURSIVE PtrsFrom(_, _, _)
PtrsFrom(ns, p, fuel) ==
    IF p = Nil \/ p = tail \/ fuel = 0 THEN <<>>
    ELSE <<p>> \o PtrsFrom(ns, ns[p].next, fuel - 1)
ListPtrs == IF head = Nil THEN <<>>
            ELSE PtrsFrom(nodes, nodes[head].next, MaxId + 4)

\* The number of regions GetPage maps over this run.
RegionBound ==
    IF script = AnyCalls THEN Bound(threads, MaxRegions, ConcRegions)
    ELSE ScenarioRegions

\* One more system call may fail.
MayFail == faults < Bound(threads, MaxFaults, ConcFaults)
\* The outcomes of a system call: success, and failure while one may fail.
Outcomes == IF MayFail THEN {TRUE, FALSE} ELSE {TRUE}
\* The fault count after a call with outcome ok.
Count(ok) == IF ok THEN faults ELSE faults + 1

(* ------------------------------ Init ---------------------------------- *)
\* NewCache: a MaxCapacity of 0 becomes 10.
NewCacheCapacity(c) == IF c = 0 THEN DefaultCapacity ELSE c

\* New: NewCache(config) and NewPager(source) over an empty file, with
\* Config.MaxCapacity one of caps.
InitCaps(ts, calls, caps) ==
    /\ threads = ts
    /\ script = calls
    /\ \E c \in caps : capacity = NewCacheCapacity(c)
    /\ fileSize = 0
    /\ info = 0
    /\ fileOpen = TRUE
    /\ regions = [r \in RegionIds |-> [page |-> NoId, st |-> "none"]]
    /\ nodes = [p \in NodePtrs |->
                  IF p = HeadNode THEN [ZeroNode EXCEPT !.next = TailNode]
                  ELSE IF p = TailNode THEN [ZeroNode EXCEPT !.prev = HeadNode]
                  ELSE ZeroNode]
    /\ lookup = <<>>
    /\ head = HeadNode
    /\ tail = TailNode
    /\ phase = "open"
    /\ pc = [t \in AllThreads |-> "idle"]
    /\ id = [t \in AllThreads |-> NoId]
    /\ offset = [t \in AllThreads |-> 0]
    /\ remaining = [t \in AllThreads |-> 0]
    /\ data = [t \in AllThreads |-> NoRegion]
    /\ res = [t \in AllThreads |-> NoResult]
    /\ nCreated = 0
    /\ faults = 0
    /\ recency = <<>>
    /\ evicted = NoId
    /\ call = [t \in AllThreads |-> NoCall]

\* New with a MaxCapacity of 0 or more.
InitWith(ts, calls) == InitCaps(ts, calls, 0 .. Bound(ts, MaxCap, ConcCap))

Init == InitWith(AllThreads, AnyCalls)
InitSeq == InitWith({1}, AnyCalls)

(* --------------------------- DiskViewer.Read -------------------------- *)
\* Read, line 60: d.cache.Get(i); a hit returns the cached region.
ReadGet(t, i) ==
    /\ pc[t] = "idle" /\ phase = "open"
    /\ i <= Bound(threads, MaxId, ConcId)
    /\ CanCall(ReadCall(i))
    /\ script' = Called
    /\ id' = [id EXCEPT ![t] = i]
    /\ evicted' = NoId
    /\ IF i \in DOMAIN lookup
       THEN /\ nodes' = moveToFront(nodes, lookup[i])
            /\ recency' = Touch(recency, i)
            /\ data' = [data EXCEPT ![t] = nodes[lookup[i]].data]
            /\ pc' = [pc EXCEPT ![t] = "using"]
            /\ res' = [res EXCEPT ![t] = [op |-> "read", err |-> FALSE, val |-> i]]
       ELSE /\ pc' = [pc EXCEPT ![t] = "fetch"]
            /\ res' = [res EXCEPT ![t] = NoResult]
            /\ UNCHANGED <<nodes, recency, data>>
    /\ UNCHANGED <<threads, capacity, pagerVars, regions, lookup, head, tail,
                   phase, createLocals, nCreated, faults>>

\* Cache.Set(i, d) for goroutine t, the whole critical section; a step that
\* calls it sets pc, res, regions and faults by Set's outcome.
CacheSet(t, i, d, rs) ==
    IF i \in DOMAIN lookup
    THEN \* lines 81-85: replace the node's region and promote it
         /\ nodes' = moveToFront([nodes EXCEPT ![lookup[i]].data = d], lookup[i])
         /\ recency' = Touch(recency, i)
         /\ evicted' = NoId
         /\ pc' = [pc EXCEPT ![t] = "using"]
         /\ res' = [res EXCEPT ![t] = [op |-> "read", err |-> FALSE, val |-> i]]
         /\ regions' = rs
         /\ UNCHANGED <<lookup, faults>>
    ELSE IF AtCapacity(Cardinality(DOMAIN lookup), capacity)
    THEN IF nodes[backNode(nodes)].prev = Nil
    THEN \* removeFromBack, line 144, on an empty list: last is the head
         \* sentinel and last.prev.next dereferences nil; the panic ends the
         \* process, every goroutine with it
         /\ pc' = [u \in AllThreads |-> "panic"]
         /\ regions' = rs
         /\ evicted' = NoId
         /\ UNCHANGED <<nodes, lookup, recency, res, faults>>
    ELSE \* lines 87-98: evict the back node, then insert
         \E ok \in Outcomes :
           LET victim == backNode(nodes)
               n1 == removeFromBack(nodes)
               lk1 == MapDelete(lookup, nodes[victim].id)
               node == NewNode(lk1)
               n2 == [n1 EXCEPT ![victim] = ZeroNode]
               n3 == [n2 EXCEPT ![node] = [ZeroNode EXCEPT !.id = i, !.data = d]]
           IN  /\ regions' = Unmap(rs, nodes[victim].data, ok)
               /\ faults' = Count(ok)
               /\ nodes' = insertAtFront(n3, node)
               /\ lookup' = MapPut(lk1, i, node)
               /\ recency' = Touch(Without(recency, nodes[victim].id), i)
               /\ evicted' = nodes[victim].id
               /\ IF ok
                  THEN /\ pc' = [pc EXCEPT ![t] = "using"]
                       /\ res' = [res EXCEPT ![t] =
                                    [op |-> "read", err |-> FALSE, val |-> i]]
                  ELSE /\ pc' = [pc EXCEPT ![t] = "unmap"]
                       /\ UNCHANGED res
    ELSE \* lines 92-98: insert
         LET node == NewNode(lookup)
             n1 == [nodes EXCEPT ![node] = [ZeroNode EXCEPT !.id = i, !.data = d]]
         IN  /\ nodes' = insertAtFront(n1, node)
             /\ lookup' = MapPut(lookup, i, node)
             /\ recency' = Touch(recency, i)
             /\ evicted' = NoId
             /\ pc' = [pc EXCEPT ![t] = "using"]
             /\ res' = [res EXCEPT ![t] = [op |-> "read", err |-> FALSE, val |-> i]]
             /\ regions' = rs
             /\ UNCHANGED faults

\* Read, lines 64-69, after the miss: d.pager.GetPage(id) maps a fresh region
\* and d.cache.Set(id, data) inserts it; or GetPage fails.  GetPage touches
\* nothing another goroutine reads, so it is one step with the Set.  mmap
\* does not compare the offset with the file size: any id may be mapped.
ReadFetch(t) ==
    /\ pc[t] = "fetch"
    /\ \/ /\ Cardinality({r \in RegionIds : regions[r].st # "none"}) < RegionBound
          /\ data' = [data EXCEPT ![t] = FreshRegion]
          /\ CacheSet(t, id[t], FreshRegion,
                      [regions EXCEPT ![FreshRegion] = [page |-> id[t], st |-> "mapped"]])
       \/ /\ MayFail
          /\ faults' = faults + 1
          /\ pc' = [pc EXCEPT ![t] = "done"]
          /\ res' = [res EXCEPT ![t] = [op |-> "read", err |-> TRUE, val |-> NoId]]
          /\ evicted' = NoId
          /\ UNCHANGED <<regions, data, cacheVars>>
    /\ UNCHANGED <<threads, capacity, script, pagerVars, head, tail, phase, id,
                   createLocals, nCreated>>

\* Read, lines 70-73: Set returned an error; data.Unmap(), return the error.
ReadUnmap(t) ==
    /\ pc[t] = "unmap"
    /\ \E ok \in Outcomes :
         /\ regions' = Unmap(regions, data[t], ok)
         /\ faults' = Count(ok)
    /\ data' = [data EXCEPT ![t] = NoRegion]
    /\ pc' = [pc EXCEPT ![t] = "done"]
    /\ res' = [res EXCEPT ![t] = [op |-> "read", err |-> TRUE, val |-> NoId]]
    /\ evicted' = NoId
    /\ UNCHANGED <<threads, capacity, script, pagerVars, cacheVars, phase, id,
                   createLocals, nCreated>>

\* The caller is done with what the call returned.
Return(t) ==
    /\ pc[t] \in {"using", "done"}
    /\ pc' = [pc EXCEPT ![t] = "idle"]
    /\ id' = [id EXCEPT ![t] = NoId]
    /\ data' = [data EXCEPT ![t] = NoRegion]
    /\ offset' = [offset EXCEPT ![t] = 0]
    /\ remaining' = [remaining EXCEPT ![t] = 0]
    /\ res' = [res EXCEPT ![t] = NoResult]
    /\ call' = Record(t, NoCall)
    /\ evicted' = NoId
    /\ UNCHANGED <<threads, capacity, script, pagerVars, regions, cacheVars, phase,
                   nCreated, faults>>

(* -------------------------- DiskViewer.Create ------------------------- *)
\* The append offset that is the start of the file.
CreateOffsetAtStart(size) == 0

\* Create, line 83: the append offset, from the cached page count.
CreateOffset(size) == PageCount(size) * PageSize

\* The created id without the - 1.
CreatedIdOffByOne(size) == PageCount(size)

\* Create, lines 97 and 101: the id of the page just created.
CreatedId(size) == PageCount(size) - 1

\* Create, lines 82-83.
CreateStart(t) ==
    /\ pc[t] = "idle" /\ phase = "open"
    /\ PageCount(info) < Bound(threads, MaxPages, ConcPages)
    /\ CanCall(CreateCall)
    /\ script' = Called
    /\ call' = Record(t, [NoCall EXCEPT !.size0 = fileSize, !.pages0 = PageCount(info)])
    /\ remaining' = [remaining EXCEPT ![t] = PageSize]
    /\ offset' = [offset EXCEPT ![t] = CreateOffset(info)]
    /\ pc' = [pc EXCEPT ![t] = "fill"]
    /\ res' = [res EXCEPT ![t] = NoResult]
    /\ evicted' = NoId
    /\ UNCHANGED <<threads, capacity, pagerVars, regions, cacheVars, phase, id,
                   data, nCreated, faults>>

\* Create, lines 85-92, one turn of the loop: fill writes n of the remaining
\* bytes, none of them included, or fails after writing n of them.
CreateFill(t) ==
    /\ pc[t] = "fill"
    /\ \E ok \in Outcomes :
         /\ faults' = Count(ok)
         /\ IF ok
            THEN \E n \in 0 .. remaining[t] :
                   /\ fileSize' = WriteAt(fileSize, offset[t], n)
                   /\ call' = Record(t, [call[t] EXCEPT
                                !.wrote = @ \cup Written(offset[t], n),
                                !.writes = IF n > 0 THEN @ + 1 ELSE @,
                                !.zeros = IF n > 0 THEN 0 ELSE 1 - @])
                   /\ remaining' = [remaining EXCEPT ![t] = remaining[t] - n]
                   /\ offset' = [offset EXCEPT ![t] = offset[t] + n]
                   /\ pc' = [pc EXCEPT ![t] =
                               IF remaining[t] - n > 0 THEN "fill" ELSE "refresh"]
                   /\ UNCHANGED res
            ELSE \E n \in 0 .. (remaining[t] - 1) :
                   /\ fileSize' = WriteAt(fileSize, offset[t], n)
                   /\ call' = Record(t, [call[t] EXCEPT
                                !.wrote = @ \cup Written(offset[t], n),
                                !.writes = @ + 1,
                                !.zeros = 0])
                   /\ pc' = [pc EXCEPT ![t] = "done"]
                   /\ res' = [res EXCEPT ![t] =
                                [op |-> "create", err |-> TRUE, val |-> 0]]
                   /\ UNCHANGED <<remaining, offset>>
    /\ evicted' = NoId
    /\ UNCHANGED <<threads, capacity, script, info, fileOpen, regions, cacheVars, phase,
                   id, data, nCreated>>

\* Create, lines 94-96: Pager.RefreshInfo stats the file, or fails.
CreateRefresh(t) ==
    /\ pc[t] = "refresh"
    /\ \E ok \in Outcomes :
         /\ faults' = Count(ok)
         /\ IF ok
            THEN /\ info' = fileSize
                 /\ pc' = [pc EXCEPT ![t] = "warm"]
                 /\ UNCHANGED res
            ELSE /\ pc' = [pc EXCEPT ![t] = "done"]
                 /\ res' = [res EXCEPT ![t] =
                              [op |-> "create", err |-> TRUE, val |-> 0]]
                 /\ UNCHANGED info
    /\ evicted' = NoId
    /\ UNCHANGED <<threads, capacity, script, fileSize, fileOpen, regions, cacheVars,
                   phase, id, data, createLocals, nCreated>>

\* Create, lines 97-99: id := d.pager.PageCount() - 1, then d.cache.Get(id)
\* with its result dropped.  The first reads the Pager only and the second
\* the Cache only, so they are one step.
CreateWarm(t) ==
    /\ pc[t] = "warm"
    /\ id' = [id EXCEPT ![t] = CreatedId(info)]
    /\ IF CreatedId(info) \in DOMAIN lookup
       THEN /\ nodes' = moveToFront(nodes, lookup[CreatedId(info)])
            /\ recency' = Touch(recency, CreatedId(info))
       ELSE UNCHANGED <<nodes, recency>>
    /\ evicted' = NoId
    /\ pc' = [pc EXCEPT ![t] = "cret"]
    /\ UNCHANGED <<threads, capacity, script, pagerVars, regions, lookup, head, tail,
                   phase, data, createLocals, res, nCreated, faults>>

\* Create, line 101: return d.pager.PageCount() - 1.
CreateReturn(t) ==
    /\ pc[t] = "cret"
    /\ res' = [res EXCEPT ![t] = [op |-> "create", err |-> FALSE, val |-> CreatedId(info)]]
    /\ nCreated' = nCreated + 1
    /\ pc' = [pc EXCEPT ![t] = "done"]
    /\ evicted' = NoId
    /\ UNCHANGED <<threads, capacity, script, pagerVars, regions, cacheVars, phase, id,
                   data, createLocals, faults>>

(* -------------------------- DiskViewer.Close -------------------------- *)
\* The region of one node of the lookup map only.
HeldRegionsOfOne ==
    IF DOMAIN lookup = {} THEN {}
    ELSE {nodes[lookup[CHOOSE i \in DOMAIN lookup : TRUE]].data} \ {NoRegion}

\* The regions the nodes of the lookup map carry.
HeldRegions == {nodes[lookup[i]].data : i \in DOMAIN lookup} \ {NoRegion}

\* Close, lines 119-121: Cache.Close unmaps every value of the lookup map
\* (the munmaps of failed fail), empties the cache, and its error ends Close.
\* Close is called once, when no other call is running.
CloseCache(t) ==
    /\ pc[t] = "idle" /\ phase = "open"
    /\ \A u \in threads : pc[u] = "idle"
    /\ script \in {AnyCalls, <<>>}
    /\ \E failed \in SUBSET HeldRegions :
         /\ faults + Cardinality(failed) <= Bound(threads, MaxFaults, ConcFaults)
         /\ faults' = faults + Cardinality(failed)
         /\ regions' = [r \in RegionIds |->
                          IF r \in HeldRegions
                          THEN Unmap(regions, r, r \notin failed)[r]
                          ELSE regions[r]]
         /\ IF failed # {}
            THEN /\ phase' = "closed"
                 /\ pc' = [pc EXCEPT ![t] = "done"]
                 /\ res' = [res EXCEPT ![t] = [op |-> "close", err |-> TRUE, val |-> NoId]]
            ELSE /\ phase' = "closing"
                 /\ pc' = [pc EXCEPT ![t] = "pclose"]
                 /\ res' = [res EXCEPT ![t] = NoResult]
    /\ nodes' = [p \in NodePtrs |-> ZeroNode]
    /\ lookup' = <<>>
    /\ head' = Nil
    /\ tail' = Nil
    /\ recency' = <<>>
    /\ evicted' = NoId
    /\ UNCHANGED <<threads, capacity, script, pagerVars, id, data, createLocals, nCreated>>

\* Close, line 122: return d.pager.Close(), which closes the file.
ClosePager(t) ==
    /\ pc[t] = "pclose"
    /\ fileOpen' = FALSE
    /\ phase' = "closed"
    /\ pc' = [pc EXCEPT ![t] = "done"]
    /\ \E ok \in Outcomes :
         /\ res' = [res EXCEPT ![t] = [op |-> "close", err |-> ~ok, val |-> NoId]]
         /\ faults' = Count(ok)
    /\ evicted' = NoId
    /\ UNCHANGED <<threads, capacity, script, fileSize, info, regions, cacheVars, id, data,
                   createLocals, nCreated>>

(* ------------------------------- Next --------------------------------- *)
Next ==
    \/ \E t \in threads, i \in PageIds : ReadGet(t, i)
    \/ \E t \in threads : ReadFetch(t)
    \/ \E t \in threads : ReadUnmap(t)
    \/ \E t \in threads : CreateStart(t)
    \/ \E t \in threads : CreateFill(t)
    \/ \E t \in threads : CreateRefresh(t)
    \/ \E t \in threads : CreateWarm(t)
    \/ \E t \in threads : CreateReturn(t)
    \/ \E t \in threads : CloseCache(t)
    \/ \E t \in threads : ClosePager(t)
    \/ \E t \in threads : Return(t)

\* Goroutines 1 and 2 call the DiskViewer concurrently.
Spec == Init /\ [][Next]_vars
\* One goroutine: calls never interleave.
SpecSeq == InitSeq /\ [][Next]_vars

\* One goroutine on a store configured with any MaxCapacity, negative or not.
InitAnyCapacity == InitCaps({1}, AnyCalls, NegativeCapacity .. MaxCap)
SpecAnyCapacity == InitAnyCapacity /\ [][Next]_vars

\* One goroutine, which takes the next step of the Create it is in: a
\* goroutine that runs is not held up forever.
CreateRuns(t) ==
    /\ WF_vars(CreateFill(t)) /\ WF_vars(CreateRefresh(t))
    /\ WF_vars(CreateWarm(t)) /\ WF_vars(CreateReturn(t))
SpecFair == SpecSeq /\ \A t \in AllThreads : CreateRuns(t)

\* One goroutine makes the calls Create, Create, Create, Read(0), Read(1),
\* Read(2), Read(0) on a store whose cache has capacity 2, and may then Close.
Scenario == <<CreateCall, CreateCall, CreateCall,
              ReadCall(0), ReadCall(1), ReadCall(2), ReadCall(0)>>
InitScenario == InitWith({1}, Scenario) /\ capacity = 2
SpecScenario == InitScenario /\ [][Next]_vars

(* ------------------------------ claims -------------------------------- *)
\* goroutine t has returned from a successful Create
CreateReturned(t) == pc[t] = "done" /\ res[t].op = "create" /\ ~res[t].err
CacheSize == Cardinality(DOMAIN lookup)

\* C1: two concurrent Create calls against an empty store, the only two that
\* have returned, return the ids 0 and 1 and leave the file two pages long.
C1_TwoCreatesDistinctIds ==
    (nCreated = 2 /\ \A t \in AllThreads : CreateReturned(t))
        => /\ {res[t].val : t \in AllThreads} = {0, 1}
           /\ fileSize = 2 * PageSize

\* C2: the region Read returned to a caller is mapped for as long as the
\* caller uses it, whatever the other goroutine does meanwhile.
C2_HandleStaysMapped ==
    \A t \in threads : pc[t] = "using" => regions[data[t]].st = "mapped"

\* C3: without interleaving, the k-th successful Create returns k - 1, and
\* between calls PageCount() is the number of successful Creates.
C3_SequentialIds ==
    \A t \in threads :
        /\ CreateReturned(t) => res[t].val = nCreated - 1
        /\ pc[t] \in {"idle", "done", "using"} => PageCount(info) = nCreated
C3_Witness ==
    /\ CreateReturned(1) /\ res[1].val = 2 /\ nCreated = 3
    /\ CacheSize > 0 /\ faults > 0

\* C4: the cache never holds more entries than its capacity, and a step that
\* adds an id to a full cache removes exactly one other id.
C4_CapacityBound ==
    /\ [](CacheSize <= capacity)
    /\ [][(DOMAIN lookup' \ DOMAIN lookup # {} /\ CacheSize = capacity)
            => /\ Cardinality(DOMAIN lookup \ DOMAIN lookup') = 1
               /\ Cardinality(DOMAIN lookup' \ DOMAIN lookup) = 1
               /\ DOMAIN lookup \ DOMAIN lookup' = {evicted'}]_vars
C4_Witness ==
    /\ evicted # NoId /\ CacheSize = capacity
    /\ \E t \in threads : pc[t] = "using" /\ id[t] \in DOMAIN lookup
    /\ \E t \in threads : pc[t] \notin {"idle", "using", "done"}

\* C5: the recency list is the cached ids by last access (Set or Get hit),
\* most recent first, and the entry Set evicts is the one accessed longest ago.
C5_StrictLRU ==
    /\ [](ListIds = recency)
    /\ [][evicted' # NoId
            => /\ evicted' = recency[Len(recency)]
               /\ evicted' \notin DOMAIN lookup']_vars
\* Page 0 was mapped first and page 1 second, and the insertion of page 2
\* into the full cache evicted page 1: a hit had promoted page 0.
C5_Witness ==
    /\ capacity = 2 /\ evicted = 1 /\ recency = <<2, 0>>
    /\ regions[1] = [page |-> 0, st |-> "mapped"]
    /\ regions[2] = [page |-> 1, st |-> "unmapped"]
    /\ regions[3] = [page |-> 2, st |-> "mapped"]

\* C6: every region the cache holds is mapped: nothing but the cache
\* releases a region it holds.
C6_CacheHoldsMapped == \A r \in HeldRegions : regions[r].st = "mapped"

\* C7: no region is unmapped twice, Close included.
C7_NoDoubleUnmap == \A r \in RegionIds : regions[r].st # "double"

\* C8: when the file has been closed no region is mapped any more.
C8_FileClosedLast == ~fileOpen => \A r \in RegionIds : regions[r].st # "mapped"

\* C9: when Close has returned, with or without an error, the file is closed.
C9_CloseClosesFile == phase = "closed" => ~fileOpen

\* C10: when Create has returned an id, the cache holds that id at the
\* most-recently-used position.
C10_CreateWarmsCache ==
    \A t \in threads :
        CreateReturned(t) => res[t].val \in DOMAIN lookup /\ recency[1] = res[t].val

\* C11: a Create that returned an id after a short write (it took more than
\* one write) has written the page at previousPageCount * pageSize and no
\* other byte, and the file is one page longer than when the call began.
C11_PartialWriteRecovery ==
    \A t \in threads :
        (CreateReturned(t) /\ call[t].writes > 1)
            => /\ call[t].wrote = Written(call[t].pages0 * PageSize, PageSize)
               /\ PageCount(fileSize) = PageCount(call[t].size0) + 1

\* C12: whenever no call is running, PageCount() is the file's size divided
\* by the page size, also after a Create that failed in its writes or in its
\* refresh.
C12_PageCountIsFileSize ==
    (\A t \in threads : pc[t] \in {"idle", "done", "using"})
        => PageCount(info) = PageCount(fileSize)

\* C13: no region is ever mapped for a page at or beyond the end of the
\* file, and the cache holds no such page.
C13_NoPageBeyondFile ==
    /\ \A r \in RegionIds :
          regions[r].st # "none" => regions[r].page < PageCount(fileSize)
    /\ \A i \in DOMAIN lookup : i < PageCount(fileSize)

\* C14: when every Read has returned and no system call has failed, at most
\* one region of each page is mapped.
C14_OneRegionPerPage ==
    (faults = 0 /\ \A t \in threads : pc[t] = "idle")
        => \A i \in PageIds :
             Cardinality({r \in RegionIds :
                            regions[r].page = i /\ regions[r].st = "mapped"}) <= 1

\* C15: while the cache is open, the nodes linked between the sentinels carry
\* exactly the ids of the lookup map, one node per id, the map entry of an id
\* points at the node that carries it, the links run both ways from head to
\* tail, and the sentinels carry no id and no region.
C15_MapMatchesList ==
    phase = "open" =>
        LET ps == ListPtrs
        IN  /\ {nodes[ps[k]].id : k \in 1 .. Len(ps)} = DOMAIN lookup
            /\ Len(ps) = Cardinality(DOMAIN lookup)
            /\ \A k \in 1 .. Len(ps) :
                  /\ ps[k] \notin {head, tail}
                  /\ lookup[nodes[ps[k]].id] = ps[k]
                  /\ nodes[ps[k]].prev = (IF k = 1 THEN head ELSE ps[k - 1])
            /\ nodes[tail].prev = (IF ps = <<>> THEN head ELSE ps[Len(ps)])
            /\ nodes[head].id = NoId /\ nodes[head].data = NoRegion
            /\ nodes[tail].id = NoId /\ nodes[tail].data = NoRegion
\* A full cache of two entries just after an eviction, the entry that stayed
\* having been promoted by a hit before.
C15_Witness ==
    /\ phase = "open" /\ capacity = 2 /\ CacheSize = 2
    /\ evicted = 1 /\ ListIds = <<2, 0>>

\* The k-th call of the scenario has returned.
Returned(k) ==
    /\ Len(script) = Len(Scenario) - k
    /\ pc[1] \in {"using", "done"} /\ phase = "open"
\* The call that has returned was a Read that missed: GetPage mapped region r
\* for page i, and Read returned it.
Missed(r, i) ==
    /\ regions[r] = [page |-> i, st |-> "mapped"]
    /\ \A q \in RegionIds : q > r => regions[q].st = "none"
    /\ pc[1] = "using" /\ data[1] = r /\ ~res[1].err

\* C16: with capacity 2 and no failing system call, after three Creates
\* (pages 0, 1, 2) Read(0) misses and the cache holds 0, Read(1) misses and
\* the cache holds 0 and 1, Read(2) misses, evicts 0 and the cache holds 1 and
\* 2, and Read(0) misses again: the page is mapped anew.
C16_EvictionScenario ==
    faults = 0 =>
        /\ Returned(3) => CreateReturned(1) /\ res[1].val = 2 /\ nCreated = 3
        /\ Returned(4) => Missed(1, 0) /\ ListIds = <<0>>
        /\ Returned(5) => Missed(2, 1) /\ ListIds = <<1, 0>>
        /\ Returned(6) => /\ Missed(3, 2) /\ ListIds = <<2, 1>>
                          /\ evicted = 0 /\ regions[1].st = "unmapped"
        /\ Returned(7) => Missed(4, 0) /\ 0 \in DOMAIN lookup
C16_Witness ==
    /\ Returned(7) /\ faults = 0 /\ Missed(4, 0)
    /\ regions[1] = [page |-> 0, st |-> "unmapped"]

\* Goroutine t takes a step that is a Cache.Get: the one of Read or the one
\* of Create.
GetStep(t) ==
    \/ pc[t] = "idle" /\ pc'[t] \in {"using", "fetch"}
    \/ pc[t] = "warm" /\ pc'[t] = "cret"

\* C17: Cache.Get leaves the lookup map, the regions and what every node
\* carries as they are; a hit returns the region the entry holds and moves
\* the entry to the front, the other entries keeping their order; a miss
\* reports the miss and leaves the list as it is.
C17_GetChangesOrderOnly ==
    [][\A t \in threads :
         GetStep(t) =>
           /\ lookup' = lookup
           /\ regions' = regions
           /\ \A j \in DOMAIN lookup :
                 /\ nodes'[lookup[j]].id = j
                 /\ nodes'[lookup[j]].data = nodes[lookup[j]].data
           /\ IF id'[t] \in DOMAIN lookup
              THEN /\ ListIds' = <<id'[t]>> \o Without(ListIds, id'[t])
                   /\ pc[t] = "idle" =>
                         /\ pc'[t] = "using" /\ ~res'[t].err
                         /\ data'[t] = nodes[lookup[id'[t]]].data
              ELSE /\ nodes' = nodes
                   /\ pc[t] = "idle" => pc'[t] = "fetch"]_vars
\* Only two regions were ever mapped, page 0 first and page 1 second, and
\* Read(0) has just returned the first with page 0 at the front: a hit on
\* the entry at the back.
C17_Witness ==
    /\ pc[1] = "using" /\ id[1] = 0 /\ data[1] = 1
    /\ ListIds = <<0, 1>>
    /\ regions[1] = [page |-> 0, st |-> "mapped"]
    /\ regions[2] = [page |-> 1, st |-> "mapped"]
    /\ regions[3].st = "none"

\* Goroutine t takes the step of Read in which GetPage maps a region and a
\* system call fails: the munmap of the entry Cache.Set evicts.
EvictionUnmapFails(t) ==
    /\ pc[t] = "fetch" /\ pc'[t] # "fetch"
    /\ regions' # regions
    /\ faults' = faults + 1

\* C18: when Set inserts a new id into a full cache and the unmap of the
\* evicted entry fails, the victim (the entry at the back) is gone from the
\* map and from the list, the new entry is at the front, the cache holds
\* capacity entries, and Set returns the error: Read takes its error path.
C18_EvictionUnmapError ==
    [][\A t \in threads :
         EvictionUnmapFails(t) =>
           LET victim == ListIds[Len(ListIds)]
           IN  /\ CacheSize = capacity /\ id[t] \notin DOMAIN lookup
               /\ victim \notin DOMAIN lookup'
               /\ \A k \in 1 .. Len(ListIds') : ListIds'[k] # victim
               /\ id[t] \in DOMAIN lookup' /\ ListIds'[1] = id[t]
               /\ nodes'[lookup'[id[t]]].data = data'[t]
               /\ DOMAIN lookup' = (DOMAIN lookup \ {victim}) \cup {id[t]}
               /\ CacheSize' = capacity
               /\ pc'[t] = "unmap"]_vars
\* Read(2) into the full cache of pages 0 and 1 has evicted page 0, whose
\* munmap failed.
C18_Witness ==
    /\ pc[1] = "unmap" /\ id[1] = 2 /\ evicted = 0 /\ faults = 1
    /\ capacity = 2 /\ ListIds = <<2, 1>>
    /\ regions[1] = [page |-> 0, st |-> "mapped"]

\* Goroutine t takes a step of Create up to the end of its write loop.
WriteStep(t) == pc'[t] = "fill" \/ pc[t] = "fill"
\* Goroutine t takes the step in which fill returns a write error.
WriteFails(t) == pc[t] = "fill" /\ pc'[t] = "done"

\* C19: a Create whose write fails returns an error and no id; PageCount()
\* and the cache are as they were when the call began, every byte it wrote
\* lies beyond the pages PageCount() counts, and a Create that succeeds
\* returns the page count of the moment it began.
C19_FailedWriteLeavesStore ==
    /\ [][\A t \in threads :
            /\ WriteStep(t) =>
                  /\ info' = info /\ nCreated' = nCreated
                  /\ lookup' = lookup /\ nodes' = nodes /\ regions' = regions
            /\ WriteFails(t) =>
                  /\ res'[t].op = "create" /\ res'[t].err
                  /\ PageCount(info') = call[t].pages0
                  /\ \A b \in call'[t].wrote : b \div PageSize >= PageCount(info')]_vars
    /\ [](\A t \in threads : CreateReturned(t) => res[t].val = call[t].pages0)
\* The second Create wrote one byte of its page, then its write failed, with
\* page 0 cached.
C19_Witness ==
    /\ pc[1] = "done" /\ res[1].op = "create" /\ res[1].err
    /\ remaining[1] = 1 /\ call[1].wrote = {PageSize}
    /\ call[1].pages0 = 1 /\ PageCount(info) = 1 /\ 0 \in DOMAIN lookup

\* The step is Cache.Close.
CacheCloses == phase = "open" /\ phase' # "open"

\* C20: Cache.Close calls Unmap on every region it holds, also after one of
\* them has failed: the held regions that stay mapped are no more than the
\* munmap calls that failed; it returns an error exactly when one failed;
\* and the cache is empty afterwards, the other regions untouched.
C20_CloseUnmapsAll ==
    [][CacheCloses =>
         LET held == {nodes[lookup[i]].data : i \in DOMAIN lookup}
             stay == {r \in held : regions[r].st = "mapped"
                                      /\ regions'[r].st = "mapped"}
         IN  /\ Cardinality(stay) <= faults' - faults
             /\ \A r \in held : regions'[r].st # "mapped" \/ r \in stay
             /\ \A r \in RegionIds \ held : regions'[r] = regions[r]
             /\ \A t \in threads :
                   pc'[t] # pc[t] =>
                     IF faults' > faults
                     THEN pc'[t] = "done" /\ res'[t].op = "close" /\ res'[t].err
                     ELSE pc'[t] = "pclose"
             /\ lookup' = <<>> /\ ListIds' = <<>>
             /\ head' = Nil /\ tail' = Nil]_vars
\* Close of a cache that never evicted and held the regions 1 and 2: the
\* munmap of region 1 failed, region 2 is unmapped, Close returned the error.
C20_Witness ==
    /\ phase = "closed" /\ pc[1] = "done" /\ res[1].op = "close" /\ res[1].err
    /\ capacity >= 2 /\ faults = 1 /\ lookup = <<>>
    /\ regions[1].st = "mapped" /\ regions[2].st = "unmapped"
    /\ regions[3].st = "none"

\* C21: a Create that has begun returns, with an id or with an error,
\* whatever the write calls do: fail, or write any number of bytes from none
\* to all of those asked for.
C21_CreateReturns ==
    \A t \in AllThreads :
        (pc[t] \in {"fill", "refresh", "warm", "cret"}) ~> (pc[t] = "done")

\* C22: whatever MaxCapacity the cache was configured with, Set evicts only
\* from a cache that holds an entry: removeFromBack is never applied to the
\* empty list, where the node it takes is the head sentinel and its prev is
\* nil, so no call ends in a nil pointer dereference.
C22_EvictsRealEntry == \A t \in AllThreads : pc[t] # "panic"

====
